---------------------------- MODULE Spec2Model ----------------------------
(***************************************************************************)
(* Loss-projected-posterior sampler, src/pipeline/inference/sampler.py.    *)
(*                                                                         *)
(* Tensors are flat sequences of exact rationals <<num, den>>; a           *)
(* ParameterSet is a function from parameter names to tensors.  The loss   *)
(* function, the base parameters and the batches are inputs of the module  *)
(* under study; they are drawn from the small catalogues below.            *)
(***************************************************************************)
EXTENDS Integers, Sequences, FiniteSets, TLC

(***************************** bounds **************************************)
MaxSamples == 2
MaxCycle == 2

(************************* exact rational numbers **************************)
Abs(n) == IF n < 0 THEN -n ELSE n

Zero == <<0, 1>>
IsZero(a) == a[1] = 0

RECURSIVE GCD(_, _)
GCD(a, b) == IF b = 0 THEN a ELSE GCD(b, a % b)

Rat(n, d) ==
    IF n = 0 THEN <<0, 1>>
    ELSE LET s == IF d < 0 THEN -1 ELSE 1
             g == GCD(Abs(n), Abs(d))
         IN  <<(s * n) \div g, (s * d) \div g>>

\* common factors are cancelled before multiplying, to keep the numbers small
RAdd(a, b) ==
    LET g == GCD(a[2], b[2])
    IN  Rat(a[1] * (b[2] \div g) + b[1] * (a[2] \div g), (a[2] \div g) * b[2])
RNeg(a) == <<-a[1], a[2]>>
RSub(a, b) == RAdd(a, RNeg(b))
RMul(a, b) ==
    IF a[1] = 0 \/ b[1] = 0 THEN Zero
    ELSE LET g1 == GCD(Abs(a[1]), b[2])
             g2 == GCD(Abs(b[1]), a[2])
         IN  Rat((a[1] \div g1) * (b[1] \div g2), (a[2] \div g2) * (b[2] \div g1))
RInv(a) == IF a[1] < 0 THEN <<-a[2], -a[1]>> ELSE <<a[2], a[1]>>
RDiv(a, b) == RMul(a, RInv(b))

\* A function constructor's value as a concrete tuple, or as a concrete
\* function: the same value, with every element computed once.
Vec(f) == f \o <<>>
Dict(f) == f @@ <<>>

RECURSIVE RSum(_)
RSum(s) == IF s = <<>> THEN Zero ELSE RAdd(Head(s), RSum(Tail(s)))

\* sum(a[i] * b[i]) over the common index range of two flat tensors
Dot(a, b) == RSum(Vec([i \in 1..Len(a) |-> RMul(a[i], b[i])]))

\* the exact square root of a perfect square (the catalogues keep to those)
ISqrt(n) == CHOOSE r \in 0..n : r * r = n


(************************ tensors and ParameterSets ************************)
R(n) == <<n, 1>>

\* the parameter names, in dict order
NameOrder == <<"w", "b">>
Names == {NameOrder[i] : i \in 1..Len(NameOrder)}

TAdd(u, v) == Vec([i \in 1..Len(u) |-> RAdd(u[i], v[i])])
TSub(u, v) == Vec([i \in 1..Len(u) |-> RSub(u[i], v[i])])
TScale(f, v) == Vec([i \in 1..Len(v) |-> RMul(f, v[i])])

\* the shape of every tensor of a ParameterSet
Shapes(ps) == Dict([k \in DOMAIN ps |-> Len(ps[k])])

(******************* the loss collaborator and the data ********************)
\* two per-example functions func(params, x, y) -> scalar:
\*   "lin": w.x + b - y        "sq": (w.x + b - y)^2
Funcs == {"lin", "sq"}

Residual(params, x, y) ==
    RSub(RAdd(Dot(params["w"], Vec([i \in 1..Len(x) |-> R(x[i])])), params["b"][1]), R(y))

\* tf.jacrev(func)(params, x, y): the derivative of the scalar output with
\* respect to every parameter block, as a dict keyed like params
JacRev(func, params, x, y) ==
    LET g == IF func = "lin" THEN R(1)
             ELSE RMul(R(2), Residual(params, x, y))
    IN  Dict([k \in DOMAIN params |->
            IF k = "w" THEN Vec([i \in 1..Len(params[k]) |-> RMul(g, R(x[i]))])
            ELSE Vec([i \in 1..Len(params[k]) |-> g])])

\* tf.vmap(..., (None, 0, 0)) needs the same batch size on both mapped inputs
VmapRaises(xb, yb) == Len(xb) # Len(yb)

\* tf.vmap(tf.jacrev(func), (None, 0, 0))(params, xb, yb): a dict of blocks,
\* block k holding one flattened row per example
BatchedJac(func, params, xb, yb) ==
    LET rows == Vec([n \in 1..Len(xb) |-> JacRev(func, params, xb[n], yb[n])])
    IN  Dict([k \in DOMAIN params |-> Vec([n \in 1..Len(xb) |-> rows[n][k]])])

(****************************** batched_jjt ********************************)
\* torch.einsum('NP,MP->NM', j, j)
Gram(j) == Vec([n \in 1..Len(j) |-> Vec([m \in 1..Len(j) |-> Dot(j[n], j[m])])])

MatAdd(A, B) ==
    Vec([n \in 1..Len(A) |-> Vec([m \in 1..Len(A[n]) |-> RAdd(A[n][m], B[n][m])])])

RECURSIVE SumBlocks(_)
SumBlocks(gs) ==
    IF Len(gs) = 1 THEN Head(gs) ELSE MatAdd(Head(gs), SumBlocks(Tail(gs)))

\* the blocks of the Jacobian, in dict order, each contracted over its
\* parameter axis, then summed
BlockGrams(jac) == Vec([i \in 1..Len(NameOrder) |-> Gram(jac[NameOrder[i]])])

batched_jjt(func, params, xb, yb) ==
    SumBlocks(BlockGrams(BatchedJac(func, params, xb, yb)))

(*************************** torch.linalg.pinv *****************************)
\* The Moore-Penrose pseudo-inverse, exact, of the 1x1 and 2x2 matrices the
\* catalogue's batches produce: the inverse when the determinant is not 0,
\* A^T / ||A||_F^2 for a rank-1 matrix, 0 for the zero matrix.
Frob2(A) == RSum(Vec([n \in 1..Len(A) |-> Dot(A[n], A[n])]))

Det2(A) == RSub(RMul(A[1][1], A[2][2]), RMul(A[1][2], A[2][1]))

PlainInverse(A) ==
    IF Len(A) = 1
    THEN <<<<IF IsZero(A[1][1]) THEN Zero ELSE RDiv(R(1), A[1][1])>>>>
    ELSE IF IsZero(Det2(A))
         THEN <<<<Zero, Zero>>, <<Zero, Zero>>>>
         ELSE LET d == Det2(A)
              IN  << <<RDiv(A[2][2], d), RDiv(RSub(Zero, A[1][2]), d)>>,
                     <<RDiv(RSub(Zero, A[2][1]), d), RDiv(A[1][1], d)>> >>

\* a plain inverse where the pseudo-inverse is called for
pinv_as_inverse(A) == PlainInverse(A)

pinv(A) ==
    IF Len(A) = 2 /\ IsZero(Det2(A)) /\ ~IsZero(Frob2(A))
    THEN LET f2 == Frob2(A)
         IN  Vec([n \in 1..2 |-> Vec([m \in 1..2 |-> RDiv(A[m][n], f2)])])
    ELSE PlainInverse(A)

(****************************** batched_proj *******************************)
\* tf.jvp(fp, (base_params,), (params_to_proj,))[1]: J v, one entry per example
Jvp(func, base_params, v, xb, yb) ==
    LET J == BatchedJac(func, base_params, xb, yb)
    IN  Vec([n \in 1..Len(xb) |->
            RSum(Vec([i \in 1..Len(NameOrder) |->
                        Dot(J[NameOrder[i]][n], v[NameOrder[i]])]))])

\* torch.matmul(inv_jjt, jvp) of a matrix and a vector
MatmulRaises(M, v) == \E i \in 1..Len(M) : Len(M[i]) # Len(v)
Matmul(M, v) == Vec([i \in 1..Len(M) |-> Dot(M[i], v)])

\* tf.vjp(fp, (base_params,))[1](u)[0][0]: J^T u, keyed like base_params
Vjp(func, base_params, u, xb, yb) ==
    LET J == BatchedJac(func, base_params, xb, yb)
    IN  Dict([k \in DOMAIN base_params |->
            Vec([i \in 1..Len(base_params[k]) |->
                RSum(Vec([n \in 1..Len(xb) |-> RMul(J[k][n][i], u[n])]))])])

batched_proj_raises(xb, yb, inv_jjt) ==
    IF VmapRaises(xb, yb) THEN "ValueError"
    ELSE IF MatmulRaises(inv_jjt, xb) THEN "RuntimeError"
    ELSE "none"

batched_proj(func, base_params, params_to_proj, xb, yb, inv_jjt) ==
    LET jvp == Jvp(func, base_params, params_to_proj, xb, yb)
        inv_jjt_jv == Matmul(inv_jjt, jvp)
        vjp == Vjp(func, base_params, inv_jjt_jv, xb, yb)
    IN  Dict([k \in DOMAIN params_to_proj |-> TSub(params_to_proj[k], vjp[k])])

(****************************** randn_params *******************************)
\* torch.sqrt takes a tensor: the float literal 1.0 is refused with TypeError
Tensor(n) == [kind |-> "tensor", val |-> n]
Float(n) == [kind |-> "float", val |-> n]
SqrtRaises(precision) == precision.kind # "tensor"

\* the values one element of torch.randn_like may take in this model
Noise == {R(-1), R(1)}

\* the possible outcomes of {k: torch.randn_like(v) for k, v in template.items()}
RandnLike(template) ==
    {z \in [DOMAIN template -> UNION {[1..n -> Noise] : n \in {Len(template[k]) : k \in DOMAIN template}}] :
        \A k \in DOMAIN template : Len(z[k]) = Len(template[k])}

\* f = 1/torch.sqrt(precision); one dict {k: f*z_k} per requested sample,
\* zs being the outcomes of the n_samples draws
randn_params(param_template, precision, zs) ==
    LET f == RDiv(R(1), R(ISqrt(precision.val)))
    IN  Vec([i \in 1..Len(zs) |->
            Dict([k \in DOMAIN param_template |-> TScale(f, zs[i][k])])])

(********************* the persisted cache (pickle) ************************)
NonePath == "<None>"
EmptyPath == ""
RealPaths == {"cache.pkl"}
Paths == {NonePath, EmptyPath} \cup RealPaths

NoFile == [exists |-> FALSE, data |-> <<>>]

\* os.path.exists(None) raises TypeError; "" names nothing
ExistsRaises(path) == path = NonePath
PathExistsNever(files, path) == FALSE

PathExists(files, path) == path \in DOMAIN files /\ files[path].exists

\* open(path, 'wb') of "" raises FileNotFoundError
OpenRaises(path) == path \notin RealPaths

\* pickle.dump(list, f): a header, one record per entry in list order, a stop mark
Tok(t) == [t |-> t, m |-> <<>>]
PickleDump(seq) ==
    <<Tok("PROTO")>> \o [i \in 1..Len(seq) |-> [t |-> "MAT", m |-> seq[i]]] \o <<Tok("STOP")>>

\* pickle.load(f) of a blob that is empty or cut short raises
PickleLoadRaises(data) ==
    IF Len(data) < 2 THEN TRUE
    ELSE IF data[1].t # "PROTO" THEN TRUE
    ELSE data[Len(data)].t # "STOP"

PickleLoad(data) == Vec([i \in 1..(Len(data) - 2) |-> data[i + 1].m])

(************************* the inputs of the calls *************************)
Batch(xb, yb) == [xb |-> xb, yb |-> yb]
B1 == Batch(<< <<1>> >>, <<0>>)
B2 == Batch(<< <<1>>, <<2>> >>, <<1, 0>>)
B3 == Batch(<< <<1>>, <<1>> >>, <<0, 1>>)
\* a batch whose inputs and targets disagree on the batch axis
Bbad == Batch(<< <<1>>, <<2>> >>, <<1>>)

BaseA == [w |-> <<R(1)>>, b |-> <<R(0)>>]
BaseB == [w |-> <<R(2)>>, b |-> <<R(-1)>>]

\* (function, base parameters, data loader) as handed to one call
Problem(f, base, loader) == [func |-> f, base_params |-> base, loader |-> loader]
Problems ==
    { Problem("lin", BaseA, <<>>),
      Problem("lin", BaseA, <<B1>>),
      Problem("lin", BaseA, <<B3, B1>>),
      Problem("sq", BaseA, <<B1, B2>>),
      Problem("sq", BaseA, <<B2, B3>>),
      Problem("sq", BaseB, <<B2, B3>>),
      Problem("lin", BaseB, <<B1, Bbad>>) }

IsoPrecisions == {Tensor(4)}

(******************************** state ************************************)
VARIABLES
    fs,             \* the file system: path -> [exists, data]
    pc,             \* the position of the (single) thread of control
    op,             \* the function the caller invoked
    args,           \* its arguments
    inv_jjt_cache,  \* precompute_inv_jjt's list, then its caller's
    bi,             \* precompute_inv_jjt: batches consumed from train_loader
    param_samples,  \* lpp_sampler: the list randn_params returned
    si,             \* lpp_sampler: samples finished
    p,              \* alternating_projection: p
    cyc,            \* alternating_projection: cycles finished
    proj_params,    \* apply_proj_cycle: proj_params
    b,              \* apply_proj_cycle: enumerate index
    proj_samples,   \* lpp_sampler: proj_samples
    est,            \* estimate_precision: n_params, trace_approx, trials run
    result,         \* the value returned to the caller
    err,            \* the exception that reached the caller
    built,          \* history: who wrote the file, the pickle of the complete
                    \* sequence for that problem, what the build returned
    stats,          \* history: what the current call did
    callLog,        \* history: the batched_proj calls of the current engine run
    drawn           \* history: the samples as randn_params drew them

vars == <<fs, pc, op, args, inv_jjt_cache, bi, param_samples, si, p, cyc,
          proj_params, b, proj_samples, est, result, err, built, stats,
          callLog, drawn>>

NoParams == [k \in Names |-> <<>>]
NoProblem == Problem("lin", NoParams, <<>>)
NoArgs ==
    [func |-> "lin", base_params |-> NoParams, loader |-> <<>>, path |-> NonePath,
     n_samples |-> 0, n_cycle |-> 0, precision |-> Tensor(1)]
NoErr == [type |-> "none", at |-> "none"]
NoEst == [n_params |-> 0, trace_approx |-> Zero, trials |-> 0]
NoStats ==
    [jjt |-> 0, iter |-> 0, writes |-> 0, loaded |-> FALSE, ready |-> FALSE,
     after_build |-> FALSE]
NoBuild ==
    [opened |-> FALSE, problem |-> NoProblem, whole |-> <<>>, returned |-> FALSE,
     seq |-> <<>>, dumpFailed |-> FALSE]

Locals == <<inv_jjt_cache, bi, param_samples, si, p, cyc, proj_params, b,
            proj_samples, est, callLog, drawn>>

Init ==
    /\ fs = [f \in RealPaths |-> NoFile]
    /\ pc = "idle"
    /\ op = "none"
    /\ args = NoArgs
    /\ inv_jjt_cache = <<>>
    /\ bi = 0
    /\ param_samples = <<>>
    /\ si = 0
    /\ p = NoParams
    /\ cyc = 0
    /\ proj_params = NoParams
    /\ b = 0
    /\ proj_samples = <<>>
    /\ est = NoEst
    /\ result = <<>>
    /\ err = NoErr
    /\ built = [f \in RealPaths |-> NoBuild]
    /\ stats = NoStats
    /\ callLog = <<>>
    /\ drawn = <<>>

Raise(type, at) ==
    /\ pc' = "raised"
    /\ err' = [type |-> type, at |-> at]

(************************** the caller's calls *****************************)
\* history: an earlier call built the cache at this path and returned
AfterBuild(path) == IF path \in RealPaths THEN built[path].returned ELSE FALSE

\* precompute_inv_jjt(func, base_params, train_loader, save_path)
CallPrecompute(prob, path) ==
    /\ op' = "precompute_inv_jjt"
    /\ args' = [func |-> prob.func, base_params |-> prob.base_params,
                loader |-> prob.loader, path |-> path,
                n_samples |-> 0, n_cycle |-> 0, precision |-> Tensor(1)]
    /\ pc' = "pre_exists"
    /\ stats' = [NoStats EXCEPT !.after_build = AfterBuild(path)]
    /\ UNCHANGED <<fs, Locals, result, err, built>>

\* lpp_sampler(n_samples, n_cycle, loss_fn, base_params, iso_precision,
\*             dataloader, inv_jjt_cache_path)
CallLpp(prob, path, k, n, iso) ==
    /\ op' = "lpp_sampler"
    /\ args' = [func |-> prob.func, base_params |-> prob.base_params,
                loader |-> prob.loader, path |-> path,
                n_samples |-> k, n_cycle |-> n, precision |-> iso]
    /\ pc' = "pre_exists"
    /\ stats' = [NoStats EXCEPT !.after_build = AfterBuild(path)]
    /\ UNCHANGED <<fs, Locals, result, err, built>>

\* estimate_precision(func, base_params, dataloader, n_samples, n_cycle,
\*                    inv_jjt_cache_path); n_params is computed before the cache
CallEstimate(prob, path, k, n) ==
    /\ op' = "estimate_precision"
    /\ args' = [func |-> prob.func, base_params |-> prob.base_params,
                loader |-> prob.loader, path |-> path,
                n_samples |-> k, n_cycle |-> n, precision |-> Float(1)]
    /\ est' = [NoEst EXCEPT !.n_params =
                  Len(prob.base_params["w"]) + Len(prob.base_params["b"])]
    /\ pc' = "pre_exists"
    /\ stats' = [NoStats EXCEPT !.after_build = AfterBuild(path)]
    /\ UNCHANGED <<fs, inv_jjt_cache, bi, param_samples, si, p, cyc, proj_params,
                   b, proj_samples, callLog, drawn, result, err, built>>

\* the caller, between two calls, makes any one of them
Call ==
    /\ pc = "idle"
    /\ \E prob \in Problems, path \in Paths, k \in 0..MaxSamples, n \in 0..MaxCycle,
          iso \in IsoPrecisions, f \in {"precompute_inv_jjt", "lpp_sampler", "estimate_precision"} :
          CASE f = "precompute_inv_jjt" -> k = 0 /\ n = 0 /\ CallPrecompute(prob, path)
            [] f = "lpp_sampler" -> CallLpp(prob, path, k, n, iso)
            [] OTHER -> CallEstimate(prob, path, k, n)

(*************************** precompute_inv_jjt ****************************)
Problem_of(a) == Problem(a.func, a.base_params, a.loader)

\* inv(Jb Jb^T) of batch i, as line 201 computes it
CacheEntry(prob, i) ==
    pinv(batched_jjt(prob.func, prob.base_params, prob.loader[i].xb, prob.loader[i].yb))

\* every batch of the loader has as many targets as inputs
WellFormed(loader) == \A i \in 1..Len(loader) : ~VmapRaises(loader[i].xb, loader[i].yb)

\* history: the list a complete build for a problem consists of, one
\* pseudo-inverse per batch in batch order
FullCache(prob) == Vec([i \in 1..Len(prob.loader) |-> CacheEntry(prob, i)])

\* line 189: os.path.exists(save_path) of None
PreExistsRaises ==
    /\ pc = "pre_exists"
    /\ ExistsRaises(args.path)
    /\ Raise("TypeError", "precompute_inv_jjt")
    /\ UNCHANGED <<fs, op, args, Locals, result, built, stats>>

\* lines 189-191: the cache exists, unpickle it
PreLoad ==
    /\ pc = "pre_exists"
    /\ ~ExistsRaises(args.path)
    /\ PathExists(fs, args.path)
    /\ ~PickleLoadRaises(fs[args.path].data)
    /\ inv_jjt_cache' = PickleLoad(fs[args.path].data)
    /\ stats' = [stats EXCEPT !.loaded = TRUE]
    /\ pc' = "pre_return"
    /\ UNCHANGED <<fs, op, args, bi, param_samples, si, p, cyc, proj_params, b,
                   proj_samples, est, callLog, drawn, result, err, built>>

\* lines 190-191: the file holds no complete pickle
PreLoadRaises ==
    /\ pc = "pre_exists"
    /\ ~ExistsRaises(args.path)
    /\ PathExists(fs, args.path)
    /\ PickleLoadRaises(fs[args.path].data)
    /\ Raise("EOFError", "precompute_inv_jjt")
    /\ UNCHANGED <<fs, op, args, Locals, result, built, stats>>

\* lines 192-194: nothing at the path, start an empty list
PreStartBuild ==
    /\ pc = "pre_exists"
    /\ ~ExistsRaises(args.path)
    /\ ~PathExists(fs, args.path)
    /\ inv_jjt_cache' = <<>>
    /\ bi' = 0
    /\ pc' = "pre_loop"
    /\ UNCHANGED <<fs, op, args, param_samples, si, p, cyc, proj_params, b,
                   proj_samples, est, callLog, drawn, result, err, built, stats>>

\* line 196: the loop goes on while the loader yields a batch
LoaderExhaustedEarly(i, loader) == i >= Len(loader) - 1

LoaderExhausted(i, loader) == i >= Len(loader)

\* lines 196-202: one batch: JJt, its pseudo-inverse, append
PreLoopBatch ==
    /\ pc = "pre_loop"
    /\ ~LoaderExhausted(bi, args.loader)
    /\ ~VmapRaises(args.loader[bi + 1].xb, args.loader[bi + 1].yb)
    /\ inv_jjt_cache' = Append(inv_jjt_cache, CacheEntry(Problem_of(args), bi + 1))
    /\ bi' = bi + 1
    /\ stats' = [stats EXCEPT !.jjt = @ + 1, !.iter = @ + 1]
    /\ UNCHANGED <<fs, pc, op, args, param_samples, si, p, cyc, proj_params, b,
                   proj_samples, est, callLog, drawn, result, err, built>>

\* lines 196-201: batched_jjt raises on this batch; nothing is caught
PreLoopBatchRaises ==
    /\ pc = "pre_loop"
    /\ ~LoaderExhausted(bi, args.loader)
    /\ VmapRaises(args.loader[bi + 1].xb, args.loader[bi + 1].yb)
    /\ stats' = [stats EXCEPT !.jjt = @ + 1, !.iter = @ + 1]
    /\ Raise("ValueError", "precompute_inv_jjt")
    /\ UNCHANGED <<fs, op, args, Locals, result, built>>

\* line 205: open(save_path, 'wb') of "" raises
PreOpenRaises ==
    /\ pc = "pre_loop"
    /\ LoaderExhausted(bi, args.loader)
    /\ OpenRaises(args.path)
    /\ Raise("FileNotFoundError", "precompute_inv_jjt")
    /\ UNCHANGED <<fs, op, args, Locals, result, built, stats>>

\* line 205: open(save_path, 'wb') creates the file, empty
PreOpen ==
    /\ pc = "pre_loop"
    /\ LoaderExhausted(bi, args.loader)
    /\ ~OpenRaises(args.path)
    /\ fs' = [fs EXCEPT ![args.path] = [exists |-> TRUE, data |-> <<>>]]
    /\ built' = [built EXCEPT ![args.path] =
                    [NoBuild EXCEPT !.opened = TRUE, !.problem = Problem_of(args),
                                    !.whole = IF WellFormed(args.loader)
                                              THEN PickleDump(FullCache(Problem_of(args)))
                                              ELSE <<>>]]
    /\ stats' = [stats EXCEPT !.writes = @ + 1]
    /\ pc' = "pre_dump"
    /\ UNCHANGED <<op, args, Locals, result, err>>

\* line 206: pickle.dump writes the whole list
PreDump ==
    /\ pc = "pre_dump"
    /\ fs' = [fs EXCEPT ![args.path].data = PickleDump(inv_jjt_cache)]
    /\ pc' = "pre_return"
    /\ UNCHANGED <<op, args, Locals, result, err, built, stats>>

\* line 206: the write fails part-way (an I/O error); the file keeps what
\* was written before it
PreDumpRaises(n) ==
    /\ fs' = [fs EXCEPT ![args.path].data = SubSeq(PickleDump(inv_jjt_cache), 1, n)]
    /\ built' = [built EXCEPT ![args.path].dumpFailed = TRUE]
    /\ Raise("OSError", "precompute_inv_jjt")
    /\ UNCHANGED <<op, args, Locals, result, stats>>

\* the write may fail after any number of records short of all of them
PreDumpFails ==
    /\ pc = "pre_dump"
    /\ \E n \in 0..(Len(PickleDump(inv_jjt_cache)) - 1) : PreDumpRaises(n)

\* line 208, and the caller's next statement
PreReturn ==
    /\ pc = "pre_return"
    /\ stats' = [stats EXCEPT !.ready = TRUE]
    /\ built' = IF stats.loaded THEN built
                ELSE [built EXCEPT ![args.path].returned = TRUE,
                                   ![args.path].seq = inv_jjt_cache]
    /\ pc' = CASE op = "precompute_inv_jjt" -> "returned"
               [] op = "lpp_sampler" -> "lpp_randn"
               [] OTHER -> "est_loop"
    /\ result' = IF op = "precompute_inv_jjt" THEN inv_jjt_cache ELSE result
    /\ UNCHANGED <<fs, op, args, Locals, err>>

(******************************* lpp_sampler *******************************)
\* line 377: randn_params(base_params, iso_precision, n_samples)
LppRandn(zs) ==
    /\ ~SqrtRaises(args.precision)
    /\ param_samples' = randn_params(args.base_params, args.precision, zs)
    /\ drawn' = randn_params(args.base_params, args.precision, zs)
    /\ proj_samples' = <<>>
    /\ si' = 0
    /\ pc' = "lpp_loop"
    /\ UNCHANGED <<fs, op, args, inv_jjt_cache, bi, p, cyc, proj_params, b, est,
                   callLog, result, err, built, stats>>

\* the draws of line 377 may come out as any list of n_samples outcomes
LppDraw ==
    /\ pc = "lpp_randn"
    /\ \E zs \in [1..args.n_samples -> RandnLike(args.base_params)] : LppRandn(zs)

\* lines 381-382 and 347: the next sample enters alternating_projection,
\* which works on a deep copy of it
LppNextSample ==
    /\ pc = "lpp_loop"
    /\ si < Len(param_samples)
    /\ p' = param_samples[si + 1]
    /\ cyc' = 0
    /\ callLog' = <<>>
    /\ pc' = "ap_loop"
    /\ UNCHANGED <<fs, op, args, inv_jjt_cache, bi, param_samples, si, proj_params,
                   b, proj_samples, est, drawn, result, err, built, stats>>

\* line 391: every sample is done
LppReturn ==
    /\ pc = "lpp_loop"
    /\ si = Len(param_samples)
    /\ result' = proj_samples
    /\ pc' = "returned"
    /\ UNCHANGED <<fs, op, args, Locals, err, built, stats>>

\* line 390: base_params plus the projected perturbation
LppAppend ==
    /\ pc = "ap_returned"
    /\ proj_samples' = Append(proj_samples,
           Dict([k \in DOMAIN args.base_params |-> TAdd(args.base_params[k], p[k])]))
    /\ si' = si + 1
    /\ pc' = "lpp_loop"
    /\ UNCHANGED <<fs, op, args, inv_jjt_cache, bi, param_samples, p, cyc,
                   proj_params, b, est, callLog, drawn, result, err, built, stats>>

(************************* alternating_projection **************************)
\* line 349: for _ in range(n_cycle)
CycleContinuesOnceMore(c, n_cycle) == c <= n_cycle

CycleContinues(c, n_cycle) == c < n_cycle

\* lines 349-350 and 275: one more cycle; apply_proj_cycle copies its input
ApNextCycle ==
    /\ pc = "ap_loop"
    /\ CycleContinues(cyc, args.n_cycle)
    /\ proj_params' = p
    /\ b' = 0
    /\ pc' = "cycle_loop"
    /\ UNCHANGED <<fs, op, args, inv_jjt_cache, bi, param_samples, si, p, cyc,
                   proj_samples, est, callLog, drawn, result, err, built, stats>>

\* line 351: return p
ApReturn ==
    /\ pc = "ap_loop"
    /\ ~CycleContinues(cyc, args.n_cycle)
    /\ pc' = "ap_returned"
    /\ UNCHANGED <<fs, op, args, Locals, result, err, built, stats>>

(***************************** apply_proj_cycle ****************************)
\* line 289: enumerate(dataloader) yields batch b while one is left
BatchLeftButLast(i, loader) == i < Len(loader) - 1

BatchLeft(i, loader) == i < Len(loader)

\* line 295: inv_jjt_cache[b], b counted from 0
CacheIndexOffByOne(i) == i + 2

CacheIndex(i) == i + 1

LogEntry(input, output, raised) ==
    [cycle |-> cyc, batch |-> b, cache |-> CacheIndex(b), input |-> input,
     output |-> output, raised |-> raised]

\* line 295: the cache has no entry b
CycleBatchIndexError ==
    /\ pc = "cycle_loop"
    /\ BatchLeft(b, args.loader)
    /\ CacheIndex(b) > Len(inv_jjt_cache)
    /\ Raise("IndexError", "apply_proj_cycle")
    /\ UNCHANGED <<fs, op, args, Locals, result, built, stats>>

\* lines 291-296: batched_proj raises (vmap or matmul refuse the shapes)
CycleBatchRaises ==
    /\ pc = "cycle_loop"
    /\ BatchLeft(b, args.loader)
    /\ CacheIndex(b) <= Len(inv_jjt_cache)
    /\ LET xb == args.loader[b + 1].xb
           yb == args.loader[b + 1].yb
           why == batched_proj_raises(xb, yb, inv_jjt_cache[CacheIndex(b)])
       IN  /\ why # "none"
           /\ callLog' = Append(callLog, LogEntry(proj_params, proj_params, TRUE))
           /\ Raise(why, "batched_proj")
    /\ UNCHANGED <<fs, op, args, inv_jjt_cache, bi, param_samples, si, p, cyc,
                   proj_params, b, proj_samples, est, drawn, result, built, stats>>

\* the same step writing the projection into the caller's sample as well
CycleBatchInPlace ==
    /\ pc = "cycle_loop"
    /\ BatchLeft(b, args.loader)
    /\ CacheIndex(b) <= Len(inv_jjt_cache)
    /\ LET xb == args.loader[b + 1].xb
           yb == args.loader[b + 1].yb
           inv == inv_jjt_cache[CacheIndex(b)]
           out == batched_proj(args.func, args.base_params, proj_params, xb, yb, inv)
       IN  /\ batched_proj_raises(xb, yb, inv) = "none"
           /\ proj_params' = out
           /\ param_samples' = [param_samples EXCEPT ![si + 1] = out]
           /\ callLog' = Append(callLog, LogEntry(proj_params, out, FALSE))
    /\ b' = b + 1
    /\ UNCHANGED <<fs, pc, op, args, inv_jjt_cache, bi, si, p, cyc,
                   proj_samples, est, drawn, result, err, built, stats>>

\* lines 289-296: proj_params = batched_proj(..., proj_params, xb, yb,
\* inv_jjt_cache[b]), a new dict
CycleBatch ==
    /\ pc = "cycle_loop"
    /\ BatchLeft(b, args.loader)
    /\ CacheIndex(b) <= Len(inv_jjt_cache)
    /\ LET xb == args.loader[b + 1].xb
           yb == args.loader[b + 1].yb
           inv == inv_jjt_cache[CacheIndex(b)]
           out == batched_proj(args.func, args.base_params, proj_params, xb, yb, inv)
       IN  /\ batched_proj_raises(xb, yb, inv) = "none"
           /\ proj_params' = out
           /\ callLog' = Append(callLog, LogEntry(proj_params, out, FALSE))
    /\ b' = b + 1
    /\ UNCHANGED <<fs, pc, op, args, inv_jjt_cache, bi, param_samples, si, p, cyc,
                   proj_samples, est, drawn, result, err, built, stats>>

\* lines 297 and 350: the cycle's result becomes p
CycleReturn ==
    /\ pc = "cycle_loop"
    /\ ~BatchLeft(b, args.loader)
    /\ p' = proj_params
    /\ cyc' = cyc + 1
    /\ pc' = "ap_loop"
    /\ UNCHANGED <<fs, op, args, inv_jjt_cache, bi, param_samples, si,
                   proj_params, b, proj_samples, est, callLog, drawn, result,
                   err, built, stats>>

(**************************** estimate_precision ***************************)
\* lines 421-422: the first trial calls randn_params(base_params, 1.0, 1),
\* whose torch.sqrt(1.0) raises
EstTrialRaises ==
    /\ pc = "est_loop"
    /\ est.trials < args.n_samples
    /\ SqrtRaises(args.precision)
    /\ Raise("TypeError", "randn_params")
    /\ UNCHANGED <<fs, op, args, Locals, result, built, stats>>

\* line 432 with n_samples = 0: trace_approx = 0 / 0
EstMeanRaises ==
    /\ pc = "est_loop"
    /\ est.trials = args.n_samples
    /\ args.n_samples = 0
    /\ Raise("ZeroDivisionError", "estimate_precision")
    /\ UNCHANGED <<fs, op, args, Locals, result, built, stats>>

(***************************** back in the caller **************************)
\* the call has returned or raised; the caller goes on to its next call
CallerContinues ==
    /\ pc \in {"returned", "raised"}
    /\ pc' = "idle"
    /\ op' = "none"
    /\ args' = NoArgs
    /\ inv_jjt_cache' = <<>>
    /\ bi' = 0
    /\ param_samples' = <<>>
    /\ si' = 0
    /\ p' = NoParams
    /\ cyc' = 0
    /\ proj_params' = NoParams
    /\ b' = 0
    /\ proj_samples' = <<>>
    /\ est' = NoEst
    /\ result' = <<>>
    /\ err' = NoErr
    /\ stats' = NoStats
    /\ callLog' = <<>>
    /\ drawn' = <<>>
    /\ UNCHANGED <<fs, built>>

Next ==
    \/ Call
    \/ PreExistsRaises
    \/ PreLoad
    \/ PreLoadRaises
    \/ PreStartBuild
    \/ PreLoopBatch
    \/ PreLoopBatchRaises
    \/ PreOpenRaises
    \/ PreOpen
    \/ PreDump
    \/ PreDumpFails
    \/ PreReturn
    \/ LppDraw
    \/ LppNextSample
    \/ LppReturn
    \/ LppAppend
    \/ ApNextCycle
    \/ ApReturn
    \/ CycleBatchIndexError
    \/ CycleBatchRaises
    \/ CycleBatch
    \/ CycleReturn
    \/ EstTrialRaises
    \/ EstMeanRaises
    \/ CallerContinues

Spec == Init /\ [][Next]_vars

(*********** one projection against one batch, on its own ******************)
\* batched_proj with the cache entry precompute_inv_jjt computes for the same
\* function, base parameters and batch; w has two elements here
PB1 == Batch(<< <<1, 0>> >>, <<0>>)
PB2 == Batch(<< <<1, 0>>, <<0, 1>> >>, <<1, 0>>)
PB3 == Batch(<< <<1, 2>>, <<1, 2>> >>, <<0, 1>>)
PB4 == Batch(<< <<1, 1>> >>, <<2>>)
ProjBatches == {PB1, PB2, PB3, PB4}

PBaseA == [w |-> <<R(1), R(1)>>, b |-> <<R(0)>>]
PBaseB == [w |-> <<R(1), R(-1)>>, b |-> <<R(1)>>]
ProjBases == {PBaseA, PBaseB}

ProjInit ==
    /\ \E f \in Funcs, base \in ProjBases, batch \in ProjBatches :
          /\ args = [NoArgs EXCEPT !.func = f, !.base_params = base,
                                   !.loader = <<batch>>]
          /\ \E c \in RandnLike(base) : param_samples = <<c>>
    /\ pc = "proj_start"
    /\ op = "batched_proj"
    /\ fs = [f \in RealPaths |-> NoFile]
    /\ inv_jjt_cache = <<>>
    /\ bi = 0
    /\ si = 0
    /\ p = NoParams
    /\ cyc = 0
    /\ proj_params = NoParams
    /\ b = 0
    /\ proj_samples = <<>>
    /\ est = NoEst
    /\ result = <<>>
    /\ err = NoErr
    /\ built = [f \in RealPaths |-> NoBuild]
    /\ stats = NoStats
    /\ callLog = <<>>
    /\ drawn = <<>>

\* line 201: torch.linalg.pinv(batched_jjt(func, base_params, xb, yb))
ProjPrecompute ==
    /\ pc = "proj_start"
    /\ inv_jjt_cache' = <<CacheEntry(Problem_of(args), 1)>>
    /\ pc' = "proj_cached"
    /\ UNCHANGED <<fs, op, args, bi, param_samples, si, p, cyc, proj_params, b,
                   proj_samples, est, result, err, built, stats, callLog, drawn>>

\* lines 252-262: batched_proj on the candidate
ProjApply ==
    /\ pc = "proj_cached"
    /\ proj_params' = batched_proj(args.func, args.base_params, param_samples[1],
                                   args.loader[1].xb, args.loader[1].yb,
                                   inv_jjt_cache[1])
    /\ pc' = "proj_done"
    /\ UNCHANGED <<fs, op, args, inv_jjt_cache, bi, param_samples, si, p, cyc, b,
                   proj_samples, est, result, err, built, stats, callLog, drawn>>

ProjNext == ProjPrecompute \/ ProjApply

SpecProj == ProjInit /\ [][ProjNext]_vars

(******************************* properties ********************************)
Finished == pc \in {"returned", "raised"}

IsPrefix(s, t) == IF Len(s) > Len(t) THEN FALSE ELSE s = SubSeq(t, 1, Len(s))

\* C1: with the cache path unset (None) or empty, precompute_inv_jjt raises
\* nothing of its own, writes nothing and returns one pseudo-inverse per batch.
C1_UnsetPathSkipsPersistence ==
    (/\ op = "precompute_inv_jjt"
     /\ args.path \in {NonePath, EmptyPath}
     /\ WellFormed(args.loader)
     /\ Finished)
    => (/\ pc = "returned"
        /\ result = FullCache(Problem_of(args))
        /\ stats.writes = 0)

\* C2: once a build to a path has returned, every later call with that path
\* computes no JJt, does not iterate the loader, does not write, does not raise
\* in precompute_inv_jjt, and obtains the very sequence the build returned,
\* whatever function, base parameters or loader it is given.
C2_LaterCallsLoadTheBuiltCache ==
    stats.after_build =>
        (/\ stats.jjt = 0
         /\ stats.iter = 0
         /\ stats.writes = 0
         /\ fs[args.path].data = PickleDump(built[args.path].seq)
         /\ ~(pc = "raised" /\ err.at = "precompute_inv_jjt")
         /\ (stats.ready => stats.loaded /\ inv_jjt_cache = built[args.path].seq)
         /\ (op = "precompute_inv_jjt" /\ pc = "returned"
                => result = built[args.path].seq))

\* a later call, for another problem, has obtained a non-empty cache
C2_Witness ==
    /\ stats.after_build
    /\ stats.ready
    /\ Problem_of(args) # built[args.path].problem
    /\ args.func # built[args.path].problem.func
    /\ Len(args.loader) # Len(built[args.path].problem.loader)
    /\ Len(inv_jjt_cache) >= 2

\* C3: lpp_sampler(n_samples = k, ...) returns a list of exactly k
\* ParameterSets with the names and shapes of base_params.
C3_SamplerReturnsKSamples ==
    (op = "lpp_sampler" /\ Finished)
    => (/\ pc = "returned"
        /\ Len(result) = args.n_samples
        /\ \A i \in 1..Len(result) :
              /\ DOMAIN result[i] = DOMAIN args.base_params
              /\ Shapes(result[i]) = Shapes(args.base_params))

\* C4: with n_cycle = 0 alternating_projection never enters a cycle, makes no
\* batched_proj call, and returns a perturbation equal to its input.
C4_ZeroCyclesReturnInput ==
    (pc = "ap_returned" /\ args.n_cycle = 0)
    => (/\ p = param_samples[si + 1]
        /\ callLog = <<>>
        /\ cyc = 0)

\* the engine has returned from a zero-cycle run over a non-empty loader
\* with a non-empty cache
C4_Witness ==
    /\ pc = "ap_returned"
    /\ args.n_cycle = 0
    /\ Len(args.loader) >= 1
    /\ Len(inv_jjt_cache) >= 1
    /\ p = param_samples[si + 1]

\* C5: an estimate_precision call that has its cache and n_samples >= 1
\* trials to run runs them all and returns.
C5_EstimateRunsItsTrials ==
    (/\ op = "estimate_precision"
     /\ stats.ready
     /\ args.n_samples >= 1
     /\ Finished)
    => (pc = "returned" /\ est.trials = args.n_samples)

\* the ParameterSet as one flat vector, blocks in dict order
RECURSIVE FlatFrom(_, _)
FlatFrom(ps, i) ==
    IF i > Len(NameOrder) THEN <<>> ELSE ps[NameOrder[i]] \o FlatFrom(ps, i + 1)
Flat(ps) == FlatFrom(ps, 1)

\* the Jacobian of the batched function at base_params as a plain matrix,
\* one row per example
JMat(func, base_params, xb, yb) ==
    Vec([n \in 1..Len(xb) |-> Flat(JacRev(func, base_params, xb[n], yb[n]))])

\* c - J^T M J c, written out on flat vectors
Projected(J, M, c) ==
    LET Jc == Vec([n \in 1..Len(J) |-> Dot(J[n], c)])
        u == Vec([n \in 1..Len(J) |-> Dot(M[n], Jc)])
    IN  Vec([i \in 1..Len(c) |->
              RSub(c[i], RSum(Vec([n \in 1..Len(J) |-> RMul(J[n][i], u[n])])))])

ProjJ == JMat(args.func, args.base_params, args.loader[1].xb, args.loader[1].yb)

\* C6: with inv_jjt the pseudo-inverse of J J^T of the batch at base_params,
\* batched_proj returns c - J^T inv_jjt J c, and J times that result is 0.
C6_ProjectionLandsInNullSpace ==
    pc = "proj_done" =>
        (/\ DOMAIN proj_params = DOMAIN param_samples[1]
         /\ Flat(proj_params) = Projected(ProjJ, inv_jjt_cache[1], Flat(param_samples[1]))
         /\ \A n \in 1..Len(ProjJ) : IsZero(Dot(ProjJ[n], Flat(proj_params))))

\* a projection against a singular, non-zero J J^T that moved the candidate
C6_Witness ==
    /\ pc = "proj_done"
    /\ Len(ProjJ) = 2
    /\ IsZero(Det2(batched_jjt(args.func, args.base_params,
                               args.loader[1].xb, args.loader[1].yb)))
    /\ proj_params # param_samples[1]
    /\ \E i \in 1..3 : ~IsZero(Flat(proj_params)[i])

EngineEnded ==
    \/ pc = "ap_returned"
    \/ pc = "raised" /\ err.at \in {"apply_proj_cycle", "batched_proj"}

C8_FileAbsentOrComplete ==
    \A f \in RealPaths :
        fs[f].exists =>
            (IF PickleLoadRaises(fs[f].data) \/ ~WellFormed(built[f].problem.loader)
             THEN FALSE
             ELSE PickleLoad(fs[f].data) = FullCache(built[f].problem))

\* C8, as it holds: nothing exists at the path while the batches are being
\* computed, nor after a batch has made the build raise; what exists later is
\* a prefix of the pickle of the complete sequence, and it is the whole
\* pickle except between open() and the end of pickle.dump, and after a
\* pickle.dump that failed.
C8_NothingPersistedBeforeAllComputed ==
    \A f \in RealPaths :
        /\ (args.path = f /\ pc = "pre_loop") => ~fs[f].exists
        /\ (args.path = f /\ pc = "raised" /\ err.type = "ValueError"
                /\ err.at = "precompute_inv_jjt") => ~fs[f].exists
        /\ fs[f].exists =>
              LET whole == built[f].whole IN
              /\ built[f].opened
              /\ WellFormed(built[f].problem.loader)
              /\ (pc = "pre_dump" => whole = PickleDump(FullCache(built[f].problem)))
              /\ IsPrefix(fs[f].data, whole)
              /\ (fs[f].data # whole
                    => \/ (args.path = f /\ pc = "pre_dump")
                       \/ built[f].dumpFailed)

\* a build has raised on its second batch, the first one computed, and the
\* path holds nothing
C8_Witness ==
    /\ pc = "raised"
    /\ err.type = "ValueError"
    /\ err.at = "precompute_inv_jjt"
    /\ args.path \in RealPaths
    /\ stats.jjt = 2
    /\ ~fs[args.path].exists

\* the loaded cache has an entry of the batch's size for every batch of the
\* loader, and the loader is well-formed
Covers(cache, loader) ==
    /\ Len(cache) >= Len(loader)
    /\ WellFormed(loader)
    /\ \A i \in 1..Len(loader) : Len(cache[i]) = Len(loader[i].xb)

Stale == stats.loaded /\ Problem_of(args) # built[args.path].problem

\* C9 as stated: with a cache built for another batch sequence or parameter
\* set, no exception comes of the mismatch, whatever the numbers of entries.
C9_StaleCacheNeverRaises ==
    (Stale /\ pc = "raised") => err.type \notin {"IndexError", "RuntimeError"}

\* C9, as it holds: nothing compares the loaded cache with the current
\* problem; the call raises nothing when the cache has an entry of the
\* batch's size for every batch, IndexError only when the cache is shorter
\* than the loader, RuntimeError only when an entry's size differs from its
\* batch's.
C9_StaleCacheSilentWhenCovering ==
    stats.loaded =>
        /\ (Covers(inv_jjt_cache, args.loader) /\ op = "lpp_sampler") => pc # "raised"
        /\ (pc = "raised" /\ err.type = "IndexError")
              => Len(inv_jjt_cache) < Len(args.loader)
        /\ (pc = "raised" /\ err.type = "RuntimeError")
              => \E i \in 1..Len(args.loader) :
                    /\ i <= Len(inv_jjt_cache)
                    /\ Len(inv_jjt_cache[i]) # Len(args.loader[i].xb)

\* the sampler has returned samples projected with a cache built for other
\* base parameters, whose entries differ from the ones this problem needs
C9_Witness ==
    /\ Stale
    /\ op = "lpp_sampler"
    /\ pc = "returned"
    /\ args.n_samples >= 1
    /\ args.n_cycle >= 1
    /\ Len(args.loader) >= 2
    /\ inv_jjt_cache # FullCache(Problem_of(args))
    /\ Len(result) = args.n_samples

\* C10 as stated: after alternating_projection with n_cycle >= 1 over at least
\* one batch, the perturbation the caller passed in holds the projected values.
C10_CallerSampleHoldsProjection ==
    (pc = "ap_returned" /\ args.n_cycle >= 1 /\ Len(args.loader) >= 1)
    => param_samples[si + 1] = p

\* C10, as it holds: the perturbations the caller passed in keep the values
\* they were drawn with; the projected values are in another ParameterSet.
C10_CallerSampleUnchanged ==
    op = "lpp_sampler" => param_samples = drawn

\* the engine has returned a projection that differs from the sample passed in
C10_Witness ==
    /\ pc = "ap_returned"
    /\ args.n_cycle >= 1
    /\ Len(args.loader) >= 1
    /\ p # param_samples[si + 1]
    /\ param_samples[si + 1] = drawn[si + 1]

=============================================================================
